---- MODULE Spec2Model ----
(***************************************************************************)
(* Persian readability (Flesch-Dayani) calculator, persian_readability.py. *)
(* Characters are Unicode code points, words are sequences of code points, *)
(* and Python floats are IEEE-754 doubles computed exactly as CPython       *)
(* computes them (round to nearest, ties to even).                          *)
(***************************************************************************)
EXTENDS Integers, Sequences, FiniteSets, TLC

\* ------------------------------------------------------------------
\* State.
VARIABLES
  entry,                \* how the module is used: "cli" (python persian_readability.py
                        \* ..., i.e. main()), "lib" (imported, compute_flesch_dayani
                        \* called directly), "word" and "score" (the unit counter and
                        \* the formula on their own)
  pc,                   \* where main, or the importing client, stands
  normalizer,           \* the module-level Normalizer() instance
  args,                 \* main: the Namespace parse_args returned
  text,                 \* main: text; lib: the argument of the call
  tokenized_sentences,  \* compute_flesch_dayani: tokenized_sentences; sentence i
                        \* of `sentences` is kept as the tokens word_tokenize
                        \* returns for it
  words,                \* compute_flesch_dayani: words; count_syllables: words
  result,               \* what compute_flesch_dayani returned (or raised)
  stdout,               \* lines printed to sys.stdout
  stderr,               \* lines printed to sys.stderr
  exit_status,          \* the process's exit status, -1 while it runs
  main_invocations,     \* how often main has called compute_flesch_dayani
  first,                \* the first call of compute_flesch_dayani: its argument,
                        \* what hazm returned for it, and its result
  repeat,               \* whether the last call had the first call's argument again
  unit_counts,          \* count_syllables: approx_syllables_in_word(w) per word
  unit_total,           \* count_syllables: the returned sum
  lens,                 \* formula alone: len(sentences), len(words) and two
                        \* syllable sums
  scored                \* formula alone: the results for the two sums

vars == <<entry, pc, normalizer, args, text, tokenized_sentences, words, result,
          stdout, stderr, exit_status, main_invocations, first, repeat,
          unit_counts, unit_total, lens, scored>>

\* ------------------------------------------------------------------
\* Natural numbers of any size: little-endian sequences of limbs, no
\* leading zero limb, <<>> is 0.  (TLC's integers are 32 bits wide; a
\* double's 53-bit significand and the 106-bit products do not fit.)
LimbBits == 2 * 7
Base == 2 ^ LimbBits

Pow2(k) == 2 ^ k

RECURSIVE BNorm(_)
BNorm(a) ==
  IF a = <<>> THEN <<>>
  ELSE IF a[Len(a)] = 0 THEN BNorm(SubSeq(a, 1, Len(a) - 1)) ELSE a

RECURSIVE BFromInt(_)
BFromInt(n) == IF n = 0 THEN <<>> ELSE <<n % Base>> \o BFromInt(n \div Base)

Limb(a, i) == IF i >= 1 /\ i <= Len(a) THEN a[i] ELSE 0
Max2(x, y) == IF x >= y THEN x ELSE y

RECURSIVE BAddFrom(_, _, _, _)
BAddFrom(a, b, i, c) ==
  IF i > Len(a) /\ i > Len(b)
  THEN (IF c = 0 THEN <<>> ELSE <<c>>)
  ELSE LET t == Limb(a, i) + Limb(b, i) + c
       IN  <<t % Base>> \o BAddFrom(a, b, i + 1, t \div Base)
BAdd(a, b) == BAddFrom(a, b, 1, 0)

\* a - b for a >= b
RECURSIVE BSubFrom(_, _, _, _)
BSubFrom(a, b, i, c) ==
  IF i > Len(a) THEN <<>>
  ELSE LET t == Limb(a, i) - Limb(b, i) - c
       IN  IF t < 0 THEN <<t + Base>> \o BSubFrom(a, b, i + 1, 1)
                    ELSE <<t>> \o BSubFrom(a, b, i + 1, 0)
BSub(a, b) == BNorm(BSubFrom(a, b, 1, 0))

\* -1, 0, 1 as a < b, a = b, a > b
RECURSIVE BCmpFrom(_, _, _)
BCmpFrom(a, b, i) ==
  IF i = 0 THEN 0
  ELSE IF a[i] < b[i] THEN -1
  ELSE IF a[i] > b[i] THEN 1
  ELSE BCmpFrom(a, b, i - 1)
BCmp(a, b) ==
  IF Len(a) < Len(b) THEN -1
  ELSE IF Len(a) > Len(b) THEN 1
  ELSE BCmpFrom(a, b, Len(a))

\* a * k for a limb-sized k (0 <= k < Base)
RECURSIVE BMulLimbFrom(_, _, _, _)
BMulLimbFrom(a, k, i, c) ==
  IF i > Len(a)
  THEN (IF c = 0 THEN <<>> ELSE <<c>>)
  ELSE LET t == a[i] * k + c
       IN  <<t % Base>> \o BMulLimbFrom(a, k, i + 1, t \div Base)
BMulLimb(a, k) == IF k = 0 THEN <<>> ELSE BMulLimbFrom(a, k, 1, 0)

Zeros(n) == [i \in 1..n |-> 0]
BShiftLimbs(a, n) == IF a = <<>> THEN <<>> ELSE Zeros(n) \o a

\* a * b, column by column; a column's sum stays below 2^31 as long as
\* one of a and b has at most 7 limbs
RECURSIVE BColumn(_, _, _, _)
BColumn(a, b, k, i) ==
  IF i > Len(a) \/ i > k THEN 0
  ELSE a[i] * Limb(b, k + 1 - i) + BColumn(a, b, k, i + 1)
RECURSIVE BCarry(_, _, _)
BCarry(cols, i, c) ==
  IF i > Len(cols)
  THEN (IF c = 0 THEN <<>> ELSE <<c>>)
  ELSE LET t == cols[i] + c
       IN  <<t % Base>> \o BCarry(cols, i + 1, t \div Base)
BMul(a, b) ==
  IF a = <<>> \/ b = <<>> THEN <<>>
  ELSE BNorm(BCarry([k \in 1..(Len(a) + Len(b)) |->
                       BColumn(a, b, k, IF k > Len(b) THEN k + 1 - Len(b) ELSE 1)], 1, 0))

\* a * 2^k
BShl(a, k) == BShiftLimbs(BMulLimb(a, Pow2(k % LimbBits)), k \div LimbBits)

\* floor(a / 2^k)
BShr(a, k) ==
  LET q == k \div LimbBits
      r == k % LimbBits
      p == Pow2(r)
      n == Len(a) - q
  IN  IF n <= 0 THEN <<>>
      ELSE BNorm([i \in 1..n |->
                    (a[i + q] \div p) + (Limb(a, i + q + 1) % p) * (Base \div p)])

RECURSIVE BitLenInt(_)
BitLenInt(n) == IF n = 0 THEN 0 ELSE 1 + BitLenInt(n \div 2)
BBitLen(a) == IF a = <<>> THEN 0 ELSE LimbBits * (Len(a) - 1) + BitLenInt(a[Len(a)])

\* bit i of a, the lowest being bit 0
BBit(a, i) == (Limb(a, (i \div LimbBits) + 1) \div Pow2(i % LimbBits)) % 2

\* whether the k lowest bits of a are all 0
BLowZero(a, k) ==
  /\ \A i \in 1..(k \div LimbBits) : Limb(a, i) = 0
  /\ Limb(a, (k \div LimbBits) + 1) % Pow2(k % LimbBits) = 0

BOne == <<1>>

\* ------------------------------------------------------------------
\* Dyadic rationals (-1)^neg * m * 2^e with m a natural number of any
\* size: the exact values of doubles and of their sums and products.
MantBits == 53
DZero == [neg |-> FALSE, m |-> <<>>, e |-> 0]
DFromInt(n) ==
  IF n = 0 THEN DZero
  ELSE [neg |-> n < 0, m |-> BFromInt(IF n < 0 THEN -n ELSE n), e |-> 0]
DNeg(x) == IF x.m = <<>> THEN x ELSE [x EXCEPT !.neg = ~x.neg]
DMul(x, y) ==
  IF x.m = <<>> \/ y.m = <<>> THEN DZero
  ELSE [neg |-> x.neg # y.neg, m |-> BMul(x.m, y.m), e |-> x.e + y.e]
DAdd(x, y) ==
  IF x.m = <<>> THEN y
  ELSE IF y.m = <<>> THEN x
  ELSE LET e == IF x.e <= y.e THEN x.e ELSE y.e
           X == BShl(x.m, x.e - e)
           Y == BShl(y.m, y.e - e)
           c == BCmp(X, Y)
       IN  IF x.neg = y.neg THEN [neg |-> x.neg, m |-> BAdd(X, Y), e |-> e]
           ELSE IF c = 0 THEN DZero
           ELSE IF c = 1 THEN [neg |-> x.neg, m |-> BSub(X, Y), e |-> e]
           ELSE [neg |-> y.neg, m |-> BSub(Y, X), e |-> e]
DSub(x, y) == DAdd(x, DNeg(y))
\* -1, 0, 1: the sign of x
DSign(x) == IF x.m = <<>> THEN 0 ELSE IF x.neg THEN -1 ELSE 1
DLe(x, y) == DSign(DSub(y, x)) >= 0
DLt(x, y) == DSign(DSub(y, x)) > 0
DAbs(x) == [x EXCEPT !.neg = FALSE]

\* ------------------------------------------------------------------
\* Python float: an IEEE-754 double, kept as a dyadic whose m has exactly
\* MantBits bits (or is 0).  RoundD rounds an exact value to the nearest
\* double, ties to even; sticky says the exact value is a little above
\* m * 2^e (the remainder of a division).  Exponents stay far inside the
\* double's range for every count the model draws, so no overflow to inf
\* and no subnormal arises.
RoundD(d, sticky) ==
  LET L == BBitLen(d.m)
  IN  IF L = 0 THEN DZero
      ELSE IF L <= MantBits
      THEN [neg |-> d.neg, m |-> BShl(d.m, MantBits - L), e |-> d.e - (MantBits - L)]
      ELSE LET sh == L - MantBits
               q == BShr(d.m, sh)
               guard == BBit(d.m, sh - 1) = 1
               rest == sticky \/ ~BLowZero(d.m, sh - 1)
               up == guard /\ (rest \/ BBit(q, 0) = 1)
               q1 == IF up THEN BAdd(q, BOne) ELSE q
           IN  IF BBitLen(q1) > MantBits
               THEN [neg |-> d.neg, m |-> BShr(q1, 1), e |-> d.e + sh + 1]
               ELSE [neg |-> d.neg, m |-> q1, e |-> d.e + sh]

\* the next limb of the quotient in the long division by b, from the
\* remainder r (0 <= r < b): <<floor(r * Base / b), (r * Base) mod b>>,
\* bit by bit when r * Base does not fit TLC's integers (b < 2^30)
RECURSIVE DivBits(_, _, _, _)
DivBits(r, b, n, acc) ==
  IF n = 0 THEN <<acc, r>>
  ELSE IF 2 * r >= b THEN DivBits(2 * r - b, b, n - 1, 2 * acc + 1)
  ELSE DivBits(2 * r, b, n - 1, 2 * acc)
DivSteps(r, b) ==
  IF b <= 2 ^ (30 - LimbBits)
  THEN <<(r * Base) \div b, (r * Base) % b>>
  ELSE DivBits(r, b, LimbBits, 0)

\* n more limbs of the quotient, lowest first, and the last remainder
RECURSIVE FracLimbs(_, _, _)
FracLimbs(r, b, n) ==
  IF n = 0 THEN [q |-> <<>>, r |-> r]
  ELSE LET s == DivSteps(r, b)
           t == FracLimbs(s[2], b, n - 1)
       IN  [q |-> t.q \o <<s[1]>>, r |-> t.r]

\* int / int (true division) of a >= 0 and b > 0: the double nearest a/b
float_truediv(a, b) ==
  IF a = 0 THEN DZero
  ELSE LET n == ((MantBits + 2 + BitLenInt(b)) \div LimbBits) + 1
           f == FracLimbs(a % b, b, n)
           Q == BNorm(f.q \o BFromInt(a \div b))
       IN  RoundD([neg |-> FALSE, m |-> Q, e |-> -(LimbBits * n)], f.r # 0)

float_mul(x, y) == RoundD(DMul(x, y), FALSE)
float_sub(x, y) == RoundD(DSub(x, y), FALSE)
float_lt(x, y) == DLt(x, y)
float_le(x, y) == DLe(x, y)

\* the float literals of the formula, each the double nearest its decimal
F262_835 == float_truediv(262835, 1000)
F1_015 == float_truediv(1015, 1000)
F0_846 == float_truediv(846, 1000)
FOne == float_truediv(1, 1)

\* the coefficients on the other ratio each
flesch_dayani_score_swapped(asl, asw) ==
  float_sub(float_sub(F262_835, float_mul(F1_015, asw)), float_mul(F0_846, asl))
\* x - y for a sign slip below: x + y
float_add(x, y) == RoundD(DAdd(x, y), FALSE)
flesch_dayani_score_plus(asl, asw) ==
  float_add(float_sub(F262_835, float_mul(F1_015, asl)), float_mul(F0_846, asw))
\* score = 262.835 - 1.015 * asl - 0.846 * asw
flesch_dayani_score(asl, asw) ==
  float_sub(float_sub(F262_835, float_mul(F1_015, asl)), float_mul(F0_846, asw))

\* BigNat below 2^31 as a TLC integer
RECURSIVE BToInt(_)
BToInt(a) == IF a = <<>> THEN 0 ELSE a[1] + Base * BToInt(SubSeq(a, 2, Len(a)))

\* f"{x:.2f}": the decimal with two fraction digits nearest the double's
\* exact value (ties to even), kept as a signed count of hundredths
format_2f(x) ==
  LET y == DMul(x, DFromInt(100))
      sh == -y.e
      q == BShr(y.m, sh)
      guard == BBit(y.m, sh - 1) = 1
      rest == ~BLowZero(y.m, sh - 1)
      up == guard /\ (rest \/ BBit(q, 0) = 1)
      mag == IF y.m = <<>> THEN 0
             ELSE IF y.e >= 0 THEN BToInt(BShl(y.m, y.e))
             ELSE BToInt(IF up THEN BAdd(q, BOne) ELSE q)
  IN  IF y.neg THEN -mag ELSE mag

\* ------------------------------------------------------------------
\* Text.  A character is its Unicode code point; a string is a sequence
\* of characters.

\* set("...") of approx_syllables_in_word: the distinct characters of the
\* literal, U+0627 U+0622 U+06CC U+0648 U+06C0 U+0624 U+0621 U+0629
vowels_with_heh == {1575, 1570, 1740, 1608, 1728, 1572, 1569, 1577, 1607}
vowels == {1575, 1570, 1740, 1608, 1728, 1572, 1569, 1577}

\* the characters str.strip() removes (str.isspace): tab, LF, VT, FF, CR,
\* FS-US, space, NEL, NBSP and the Unicode spaces
whitespace ==
  {9, 10, 11, 12, 13, 28, 29, 30, 31, 32, 133, 160, 5760, 8232, 8233, 8239, 8287, 12288}
    \cup (8192..8202)

RECURSIVE lstrip(_)
lstrip(s) ==
  IF s # <<>> /\ s[1] \in whitespace THEN lstrip(SubSeq(s, 2, Len(s))) ELSE s
RECURSIVE rstrip(_)
rstrip(s) ==
  IF s # <<>> /\ s[Len(s)] \in whitespace THEN rstrip(SubSeq(s, 1, Len(s) - 1)) ELSE s
\* str.strip()
strip(s) == rstrip(lstrip(s))

\* sum(1 for ch in word if ch in vowels)
RECURSIVE vowel_count(_)
vowel_count(word) ==
  IF word = <<>> THEN 0
  ELSE (IF word[1] \in vowels THEN 1 ELSE 0) + vowel_count(SubSeq(word, 2, Len(word)))

\* count or 1
or_one_missing(count) == count
or_one(count) == IF count # 0 THEN count ELSE 1

approx_syllables_in_word(word) == or_one(vowel_count(word))

RECURSIVE count_syllables_sum(_)
count_syllables_sum(ws) ==
  IF ws = <<>> THEN 0
  ELSE approx_syllables_in_word(ws[1]) + count_syllables_sum(SubSeq(ws, 2, Len(ws)))

\* a running total that is never reset between calls
count_syllables_carrying(ws) ==
  count_syllables_sum(ws) + (IF first.set THEN first.result.syllables ELSE 0)
\* sum(approx_syllables_in_word(w) for w in words)
count_syllables(ws) == count_syllables_sum(ws)

\* [w for sent in tokenized_sentences for w in sent if w.strip()]
RECURSIVE flatten(_)
flatten(tokenized) ==
  IF tokenized = <<>> THEN <<>>
  ELSE tokenized[1] \o flatten(SubSeq(tokenized, 2, Len(tokenized)))
keep_token(w) == strip(w) # <<>>
filter_words(tokenized) == SelectSeq(flatten(tokenized), keep_token)

\* max(n, 1)
max_with_one_missing(n) == n
max_with_one(n) == IF n >= 1 THEN n ELSE 1

\* ------------------------------------------------------------------
\* ReadabilityResult, and what compute_flesch_dayani leaves in place of
\* one when a division raises.
NoResult == [kind |-> "none"]
ZeroDivisionError == [kind |-> "ZeroDivisionError"]

\* Lines 63-88 of compute_flesch_dayani, from len(sentences), len(words)
\* and count_syllables(words).
readability(len_sentences, len_words, sum_syllables) ==
  LET n_sentences == max_with_one(len_sentences)
      n_words == max_with_one(len_words)
      n_syllables == max_with_one(sum_syllables)
  IN  IF n_sentences = 0 \/ n_words = 0 THEN ZeroDivisionError
      ELSE LET asl == float_truediv(n_words, n_sentences)
               asw == float_truediv(n_syllables, n_words)
           IN  [kind |-> "ReadabilityResult",
                sentences |-> n_sentences,
                words |-> n_words,
                syllables |-> n_syllables,
                asl |-> asl,
                asw |-> asw,
                flesch_dayani |-> flesch_dayani_score(asl, asw)]

\* ------------------------------------------------------------------
\* Inputs.
None == [some |-> FALSE]
Some(v) == [some |-> TRUE, val |-> v]

\* the word salam (seen, lam, alef, meem); "." is U+002E, " " is U+0020,
\* and <<1575, 1608>> is the word "u" (alef, waw)
Salam == <<1587, 1604, 1575, 1605>>
SalamDot == Salam \o <<46>>
\* what --text or the file may hold, and what a client passes directly
InputTexts == {<<>>, <<32>>, SalamDot}
CallTexts == {<<>>, SalamDot}
Tokens == {<<32>>, <<46>>, Salam, <<1575, 1608>>}

\* sentences plus tokens hazm returns for one text, at most
MaxPieces == 3

\* the sequences of n sequences over S that hold at most budget elements
\* of S in all
RECURSIVE Lists(_, _, _)
Lists(S, n, budget) ==
  IF n = 0 THEN {<<>>}
  ELSE UNION {{<<piece>> \o rest : piece \in [1..k -> S], rest \in Lists(S, n - 1, budget - k)}
                : k \in 0..budget}
\* what sent_tokenize and word_tokenize can return, as far as the model goes
TokenizedOutputs == UNION {Lists(Tokens, n, MaxPieces - n) : n \in 0..MaxPieces}

\* the unit counter alone: words over the vowel set and a few other
\* characters (seen, heh, Arabic yeh U+064A, "1", "."), at most MaxWords
\* words of at most MaxChars characters in all
MaxWords == 2
MaxChars == 2
WordAlphabet == vowels \cup {1587, 1607, 1610, 49, 46}
WordLists == UNION {Lists(WordAlphabet, n, MaxChars) : n \in 0..MaxWords}

\* the formula alone: counts up to MaxCount, or ManyWords words, and
\* syllable sums up to MaxExtra above the word count (a word has at least
\* one syllable)
MaxCount == 3
MaxExtra == 2
ManyWords == 100000000
LensSet ==
  {[sentences |-> s, words |-> w, syllables |-> IF w = 0 THEN <<0, 0>> ELSE <<w + a, w + b>>]
     : s \in 0..MaxCount, w \in (0..MaxCount) \cup {ManyWords},
       a \in 0..MaxExtra, b \in 0..MaxExtra}
\* no sentence, no word
ReachableLens == {l \in LensSet : l.sentences = 0 => l.words = 0}

FilePaths == {"", "in.txt"}
Argvs ==
  [file : {None} \cup {Some(p) : p \in FilePaths},
   text : {None} \cup {Some(t) : t \in InputTexts},
   plain : BOOLEAN]

NoFirst == [set |-> FALSE]
NoArgs == [file |-> None, text |-> None, plain |-> FALSE]
NoLens == [sentences |-> 0, words |-> 0, syllables |-> <<0, 0>>]

\* ------------------------------------------------------------------
\* main's helpers.

\* the required mutually exclusive group of parse_args: exactly one of
\* -f and -t, or argparse exits with status 2
parse_args_ok(argv) == argv.file.some # argv.text.some

\* if args.file:
file_given(a) == a.file.some /\ a.file.val # ""

\* not text or not text.strip()
is_empty_no_strip(t) == IF ~t.some THEN TRUE ELSE t.val = <<>>
is_empty_text(t) ==
  IF ~t.some THEN TRUE
  ELSE IF t.val = <<>> THEN TRUE
  ELSE strip(t.val) = <<>>

Line(label, value) == [line |-> label, value |-> value]
\* main's prints of a result; floats go through :.2f
print_lines(plain, r) ==
  IF plain THEN <<Line("score", format_2f(r.flesch_dayani))>>
  ELSE <<Line("header", 0),
         Line("sentences", r.sentences),
         Line("words", r.words),
         Line("syllables", r.syllables),
         Line("", 0),
         Line("ASL", format_2f(r.asl)),
         Line("ASW", format_2f(r.asw)),
         Line("", 0),
         Line("score", format_2f(r.flesch_dayani)),
         Line("", 0),
         Line("bands", 0), Line("band >= 200", 0), Line("band 150-200", 0),
         Line("band 100-150", 0), Line("band < 100", 0)>>

\* ------------------------------------------------------------------
\* compute_flesch_dayani(t).  normalizer.normalize, sent_tokenize and
\* word_tokenize are hazm's: they may return anything, but the same thing
\* for the same text and the same normalizer (pure functions), which the
\* model keeps for the first text they were called on.
compute_flesch_dayani(t) ==
  \E ts \in (IF first.set /\ first.text = t /\ first.normalizer = normalizer
             THEN {first.tokenized} ELSE TokenizedOutputs) :
    LET ws == filter_words(ts)
        r == readability(Len(ts), Len(ws), count_syllables(ws))
    IN  /\ tokenized_sentences' = ts
        /\ words' = ws
        /\ result' = r
        /\ first' = IF first.set THEN first
                    ELSE [set |-> TRUE, normalizer |-> normalizer, text |-> t,
                          tokenized |-> ts, result |-> r]
        /\ repeat' = IF first.set THEN first.text = t ELSE FALSE
        /\ UNCHANGED normalizer

Init ==
  /\ entry \in {"cli", "lib"}
  /\ pc = IF entry = "cli" THEN "parse_args" ELSE "idle"
  /\ normalizer = "Normalizer()"
  /\ args = NoArgs
  /\ text = None
  /\ tokenized_sentences = <<>>
  /\ words = <<>>
  /\ result = NoResult
  /\ stdout = <<>>
  /\ stderr = <<>>
  /\ exit_status = -1
  /\ main_invocations = 0
  /\ first = NoFirst
  /\ repeat = FALSE
  /\ unit_counts = <<>>
  /\ unit_total = 0
  /\ lens = NoLens
  /\ scored = <<NoResult, NoResult>>

\* main: args = parse_args(argv)
ParseArgs ==
  /\ entry = "cli" /\ pc = "parse_args"
  /\ \E argv \in Argvs :
       IF parse_args_ok(argv)
       THEN /\ args' = argv
            /\ pc' = "read_input"
            /\ UNCHANGED <<stderr, exit_status>>
       ELSE /\ args' = args
            /\ pc' = "exited"
            /\ stderr' = <<Line("usage", 0)>>
            /\ exit_status' = 2
  /\ UNCHANGED <<repeat, entry, normalizer, text, tokenized_sentences, words, result, stdout,
                 main_invocations, first, unit_counts, unit_total, lens, scored>>

\* main: with open(args.file, "r", encoding="utf-8") as f: text = f.read()
ReadFile ==
  /\ entry = "cli" /\ pc = "read_input" /\ file_given(args)
  /\ \E content \in InputTexts : text' = Some(content)
  /\ pc' = "check_empty"
  /\ UNCHANGED <<repeat, entry, normalizer, args, tokenized_sentences, words, result, stdout,
                 stderr, exit_status, main_invocations, first, unit_counts,
                 unit_total, lens, scored>>

\* main: open or read raises (no such file, not UTF-8); nothing catches it
ReadFileRaises ==
  /\ entry = "cli" /\ pc = "read_input" /\ file_given(args)
  /\ stderr' = <<Line("Traceback", 0)>>
  /\ exit_status' = 1
  /\ pc' = "exited"
  /\ UNCHANGED <<repeat, entry, normalizer, args, text, tokenized_sentences, words, result,
                 stdout, main_invocations, first, unit_counts, unit_total, lens,
                 scored>>

\* main: text = args.text
TakeText ==
  /\ entry = "cli" /\ pc = "read_input" /\ ~file_given(args)
  /\ text' = args.text
  /\ pc' = "check_empty"
  /\ UNCHANGED <<repeat, entry, normalizer, args, tokenized_sentences, words, result, stdout,
                 stderr, exit_status, main_invocations, first, unit_counts,
                 unit_total, lens, scored>>

\* main: if not text or not text.strip(): print(..., file=sys.stderr); sys.exit(1)
RejectEmpty ==
  /\ entry = "cli" /\ pc = "check_empty" /\ is_empty_text(text)
  /\ stderr' = <<Line("empty text", 0)>>
  /\ exit_status' = 1
  /\ pc' = "exited"
  /\ UNCHANGED <<repeat, entry, normalizer, args, text, tokenized_sentences, words, result,
                 stdout, main_invocations, first, unit_counts, unit_total, lens,
                 scored>>

\* main: the check is passed
PassCheck ==
  /\ entry = "cli" /\ pc = "check_empty" /\ ~is_empty_text(text)
  /\ pc' = "compute"
  /\ UNCHANGED <<repeat, entry, normalizer, args, text, tokenized_sentences, words, result,
                 stdout, stderr, exit_status, main_invocations, first, unit_counts,
                 unit_total, lens, scored>>

\* main: result = compute_flesch_dayani(text)
MainCompute ==
  /\ entry = "cli" /\ pc = "compute"
  /\ compute_flesch_dayani(IF text.some THEN text.val ELSE <<>>)
  /\ main_invocations' = main_invocations + 1
  /\ IF result'.kind = "ReadabilityResult"
     THEN pc' = "print" /\ UNCHANGED <<stderr, exit_status>>
     ELSE pc' = "exited" /\ stderr' = <<Line("Traceback", 0)>> /\ exit_status' = 1
  /\ UNCHANGED <<entry, args, text, stdout, unit_counts, unit_total, lens, scored>>

\* main: the prints, and the end of the script
PrintResult ==
  /\ entry = "cli" /\ pc = "print"
  /\ stdout' = print_lines(args.plain, result)
  /\ exit_status' = 0
  /\ pc' = "exited"
  /\ UNCHANGED <<repeat, entry, normalizer, args, text, tokenized_sentences, words, result,
                 stderr, main_invocations, first, unit_counts, unit_total, lens,
                 scored>>

\* an importing client calls compute_flesch_dayani(t)
DirectCall ==
  /\ entry = "lib" /\ pc = "idle"
  /\ \E t \in CallTexts :
       /\ text' = Some(t)
       /\ compute_flesch_dayani(t)
  /\ pc' = "returned"
  /\ UNCHANGED <<entry, args, stdout, stderr, exit_status, main_invocations,
                 unit_counts, unit_total, lens, scored>>

\* the client is done with the result; the call's locals are gone
Release ==
  /\ entry = "lib" /\ pc = "returned"
  /\ pc' = "idle"
  /\ text' = None
  /\ tokenized_sentences' = <<>>
  /\ words' = <<>>
  /\ result' = NoResult
  /\ repeat' = FALSE
  /\ UNCHANGED <<entry, normalizer, args, stdout, stderr, exit_status,
                 main_invocations, first, unit_counts, unit_total, lens, scored>>

Next ==
  \/ ParseArgs
  \/ ReadFile
  \/ ReadFileRaises
  \/ TakeText
  \/ RejectEmpty
  \/ PassCheck
  \/ MainCompute
  \/ PrintResult
  \/ DirectCall
  \/ Release

Spec == Init /\ [][Next]_vars

\* ------------------------------------------------------------------
\* The unit counter alone: count_syllables(words) on any list of words.
InitWord ==
  /\ entry = "word"
  /\ pc = "count_syllables"
  /\ words \in WordLists
  /\ normalizer = "Normalizer()"
  /\ args = NoArgs
  /\ text = None
  /\ tokenized_sentences = <<>>
  /\ result = NoResult
  /\ stdout = <<>>
  /\ stderr = <<>>
  /\ exit_status = -1
  /\ main_invocations = 0
  /\ first = NoFirst
  /\ repeat = FALSE
  /\ unit_counts = <<>>
  /\ unit_total = 0
  /\ lens = NoLens
  /\ scored = <<NoResult, NoResult>>

CountSyllables ==
  /\ entry = "word" /\ pc = "count_syllables"
  /\ unit_counts' = [i \in 1..Len(words) |-> approx_syllables_in_word(words[i])]
  /\ unit_total' = count_syllables(words)
  /\ pc' = "counted"
  /\ UNCHANGED <<repeat, entry, normalizer, args, text, tokenized_sentences, words, result,
                 stdout, stderr, exit_status, main_invocations, first, lens, scored>>

NextWord == CountSyllables

SpecWord == InitWord /\ [][NextWord]_vars

\* ------------------------------------------------------------------
\* The formula alone: lines 63-88 on two texts with the same sentences
\* and words and any two syllable sums.
InitScore ==
  /\ entry = "score"
  /\ pc = "score"
  /\ lens \in ReachableLens
  /\ scored = <<NoResult, NoResult>>
  /\ normalizer = "Normalizer()"
  /\ args = NoArgs
  /\ text = None
  /\ tokenized_sentences = <<>>
  /\ words = <<>>
  /\ result = NoResult
  /\ stdout = <<>>
  /\ stderr = <<>>
  /\ exit_status = -1
  /\ main_invocations = 0
  /\ first = NoFirst
  /\ repeat = FALSE
  /\ unit_counts = <<>>
  /\ unit_total = 0

Score(i) ==
  /\ entry = "score" /\ scored[i] = NoResult
  /\ scored' = [scored EXCEPT ![i] =
                  readability(lens.sentences, lens.words, lens.syllables[i])]
  /\ UNCHANGED <<repeat, entry, pc, normalizer, args, text, tokenized_sentences, words,
                 result, stdout, stderr, exit_status, main_invocations, first,
                 unit_counts, unit_total, lens>>

ScoreFirst == Score(1)
ScoreSecond == Score(2)

NextScore == ScoreFirst \/ ScoreSecond

SpecScore == InitScore /\ [][NextScore]_vars

\* ------------------------------------------------------------------
\* Properties.

IsResult(r) == r.kind = "ReadabilityResult"
\* x * 2^k
DScale(x, k) == IF x.m = <<>> THEN x ELSE [x EXCEPT !.e = @ + k]
DEq(x, y) == DSign(DSub(x, y)) = 0
\* every character of t is whitespace (so is the empty string's)
Blank(t) == \A i \in DOMAIN t : t[i] \in whitespace
RECURSIVE SeqSum(_)
SeqSum(s) == IF s = <<>> THEN 0 ELSE s[1] + SeqSum(SubSeq(s, 2, Len(s)))

\* C1: whatever sent_tokenize and word_tokenize return, compute_flesch_dayani
\* raises nothing and its result has sentences >= 1, words >= 1 and
\* syllables >= 1, the denominators of the two divisions.
C1_CountsAtLeastOne ==
  result # NoResult =>
    /\ IsResult(result)
    /\ result.sentences >= 1
    /\ result.words >= 1
    /\ result.syllables >= 1
\* a result for sentences whose tokens are all whitespace
C1_Witness ==
  /\ IsResult(result)
  /\ tokenized_sentences # <<>>
  /\ flatten(tokenized_sentences) # <<>>
  /\ words = <<>>

\* C2: approx_syllables_in_word(w) >= 1 for every non-empty word w.
C2_WordHasASyllable ==
  pc = "counted" =>
    \A i \in DOMAIN words : words[i] # <<>> => unit_counts[i] >= 1
\* a counted word of one character that is no vowel
C2_Witness ==
  /\ pc = "counted"
  /\ \E i \in DOMAIN words : words[i] = <<46>> /\ unit_counts[i] = 1

\* C3: a direct call for which sent_tokenize returns no sentence raises
\* nothing and returns sentences = words = syllables = 1, asl = asw = 1.0.
C3_EmptyGivesOnes ==
  (entry = "lib" /\ pc = "returned" /\ tokenized_sentences = <<>>) =>
    /\ IsResult(result)
    /\ result.sentences = 1
    /\ result.words = 1
    /\ result.syllables = 1
    /\ DEq(result.asl, DFromInt(1))
    /\ DEq(result.asw, DFromInt(1))
\* the direct call on the empty string, no sentence returned
C3_Witness ==
  /\ entry = "lib" /\ pc = "returned"
  /\ text = Some(<<>>)
  /\ tokenized_sentences = <<>>
  /\ IsResult(result)

\* q is num / den rounded to a double: off by at most 2^-53 of num / den
NearestRatio(q, num, den) ==
  DLe(DScale(DAbs(DSub(DMul(q, DFromInt(den)), DFromInt(num))), MantBits), DFromInt(num))
\* 1000 * score is 262835 - 846 * asw - 1015 * asl up to the rounding of
\* the four float operations: 2^-50 of the terms' magnitudes
NearFormula(r) ==
  LET a == DMul(DFromInt(846), r.asw)
      b == DMul(DFromInt(1015), r.asl)
      exact == DSub(DSub(DFromInt(262835), a), b)
      err == DAbs(DSub(DMul(DFromInt(1000), r.flesch_dayani), exact))
  IN  DLe(DScale(err, 50), DAdd(DAdd(DFromInt(262835), a), b))
\* C4: in every result asl is words / sentences and asw is syllables / words
\* (as doubles, of the counts in the result), and flesch_dayani is
\* 262.835 - 0.846 * asw - 1.015 * asl, unclamped.
C4_RatiosAndFormula ==
  \A i \in DOMAIN scored :
    IsResult(scored[i]) =>
      /\ NearestRatio(scored[i].asl, scored[i].words, scored[i].sentences)
      /\ NearestRatio(scored[i].asw, scored[i].syllables, scored[i].words)
      /\ NearFormula(scored[i])
\* a result whose two ratios differ and whose score is negative
C4_Witness ==
  /\ IsResult(scored[1])
  /\ ~DEq(scored[1].asl, scored[1].asw)
  /\ scored[1].flesch_dayani.neg
  /\ scored[1].words = ManyWords

SameWordsAndSentences ==
  /\ IsResult(scored[1]) /\ IsResult(scored[2])
  /\ scored[1].words = scored[2].words
  /\ scored[1].sentences = scored[2].sentences
\* C5 as claimed: of two results with the same words and sentences, the
\* one with more syllables has the strictly smaller score.
C5_StrictlySmaller ==
  (SameWordsAndSentences /\ scored[1].syllables < scored[2].syllables) =>
    float_lt(scored[2].flesch_dayani, scored[1].flesch_dayani)
\* C5 as amended: of two results with the same words and sentences, the
\* one with more syllables never has the larger score.
C5_NeverLarger ==
  (SameWordsAndSentences /\ scored[1].syllables < scored[2].syllables) =>
    float_le(scored[2].flesch_dayani, scored[1].flesch_dayani)
\* two such results whose scores are the same double
C5_Witness ==
  /\ SameWordsAndSentences
  /\ scored[1].syllables < scored[2].syllables
  /\ scored[1].flesch_dayani = scored[2].flesch_dayani

C7_OneWordSentence ==
  (/\ IsResult(result)
   /\ text = Some(SalamDot)
   /\ tokenized_sentences = <<<<Salam, <<46>>>>>>) =>
    /\ result.sentences = 1
    /\ result.words = 1
    /\ result.syllables = 1
    /\ DEq(result.asl, DFromInt(1))

EmptyTextReported ==
  /\ pc = "exited"
  /\ exit_status = 1
  /\ stderr = <<Line("empty text", 0)>>
  /\ stdout = <<>>
  /\ main_invocations = 0
  /\ result = NoResult
\* C8: main with an empty or all-whitespace text (or none, for -f "")
\* reports it and exits 1, compute_flesch_dayani not called and nothing
\* printed; main calls compute_flesch_dayani at most once, after the
\* check, and never with such a text.
C8_EmptyNeverComputed ==
  entry = "cli" =>
    /\ (text.some /\ Blank(text.val)) =>
         (pc = "check_empty" /\ main_invocations = 0 /\ stdout = <<>>) \/ EmptyTextReported
    /\ (pc = "exited" /\ parse_args_ok(args) /\ ~file_given(args) /\ ~text.some) =>
         EmptyTextReported
    /\ main_invocations <= 1
    /\ (pc = "compute" \/ main_invocations = 1) => (text.some /\ ~Blank(text.val))
    /\ main_invocations = 1 => pc \in {"print", "exited"}
    /\ pc = "compute" => main_invocations = 0
\* main has exited on a text of one space
C8_Witness ==
  /\ entry = "cli"
  /\ text = Some(<<32>>)
  /\ EmptyTextReported

\* the positions of w that hold a character of the claimed set
ClaimedVowels == {1575, 1570, 1740, 1608, 1728, 1572, 1569, 1577}
VowelPositions(w) == {p \in DOMAIN w : w[p] \in ClaimedVowels}
\* C9: approx_syllables_in_word(w) is the number of positions of w holding
\* alef, alef madda, Farsi yeh, waw, heh with yeh, waw with hamza, hamza or
\* teh marbuta, or 1 when there is none; count_syllables is the sum.
C9_CountsVowelPositions ==
  pc = "counted" =>
    /\ \A i \in DOMAIN words :
         unit_counts[i] = IF Cardinality(VowelPositions(words[i])) >= 1
                          THEN Cardinality(VowelPositions(words[i])) ELSE 1
    /\ unit_total = SeqSum(unit_counts)
\* two words counted, one with the same vowel twice, one with none
C9_Witness ==
  /\ pc = "counted"
  /\ Len(words) = 2
  /\ \E i \in DOMAIN words : words[i] = <<1575, 1575>> /\ unit_counts[i] = 2
  /\ \E i \in DOMAIN words : words[i] = <<>> /\ unit_counts[i] = 1

unit_of(w) == IF VowelPositions(w) = {} THEN 1 ELSE Cardinality(VowelPositions(w))
\* C10: in every result syllables >= words and asw >= 1, and the sum of
\* the words' syllables is below 1, so that max(..., 1) changes it, only
\* for an empty word list.
C10_SyllablesAtLeastWords ==
  IsResult(result) =>
    /\ result.syllables >= result.words
    /\ DLe(DFromInt(1), result.asw)
    /\ words # <<>> => result.syllables = SeqSum([i \in DOMAIN words |-> unit_of(words[i])])
\* a result whose words include a full stop, counted as one syllable
C10_Witness ==
  /\ IsResult(result)
  /\ \E i \in DOMAIN words : words[i] = <<46>>
  /\ result.syllables = result.words
====
